---- MODULE Spec2Model ----
(***************************************************************************)
(* Inverse perspective mapping of alexander-toch/onnx-lanedetection-       *)
(* metadrive: the Camera class (lanefitting/ipm.py and metadrive_bridge.py)*)
(* and the module-level script of lanefitting/ipm.py.                      *)
(*                                                                         *)
(* Numbers are exact rationals <<n, d>> (d > 0, lowest terms): numpy's     *)
(* float64 arithmetic is modelled by real arithmetic.  Angles are taken at *)
(* multiples of 90 degrees, where every sine and cosine is -1, 0 or 1.     *)
(* Pixel contents are not modelled: an image is the file it was read from, *)
(* a warped image is its source, its homography and its size (so --cc,     *)
(* which only selects the interpolation, is left out of args).             *)
(***************************************************************************)
EXTENDS Integers, Sequences, FiniteSets, TLC

(***************************************************************************)
(* Bounds of the model.                                                    *)
(***************************************************************************)
MaxCams == 3
MaxPos == 1
MaxFiles == 2
MaxArgs == 5
MaxEpisode == 11
MaxSteps == 3
MaxScen == 3

(***************************************************************************)
(* Rational arithmetic.                                                    *)
(***************************************************************************)
Abs(x) == IF x < 0 THEN -x ELSE x

RECURSIVE GCD(_, _)
GCD(a, b) == IF b = 0 THEN a ELSE GCD(b, a % b)

RNorm(n, d) ==
  LET s == IF d < 0 THEN -1 ELSE 1
      g == GCD(Abs(n), Abs(d))
  IN  IF n = 0 THEN <<0, 1>> ELSE <<(s * n) \div g, (s * d) \div g>>

Rat(n) == <<n, 1>>
RAdd(a, b) == RNorm(a[1] * b[2] + b[1] * a[2], a[2] * b[2])
RNeg(a) == <<-a[1], a[2]>>
RSub(a, b) == RAdd(a, RNeg(b))
RMul(a, b) == RNorm(a[1] * b[1], a[2] * b[2])
RDiv(a, b) == RNorm(a[1] * b[2], a[2] * b[1])
\* Python's int(x) on a float: truncation toward zero
RTrunc(a) == IF a[1] >= 0 THEN a[1] \div a[2] ELSE -((-a[1]) \div a[2])

(***************************************************************************)
(* Matrices are sequences of rows; vectors are sequences.                  *)
(***************************************************************************)
\* the sequence <<F(1), ..., F(n)>>
RECURSIVE Tabulate(_, _)
Tabulate(F(_), n) == IF n = 0 THEN <<>> ELSE Append(Tabulate(F, n - 1), F(n))

RECURSIVE DotTo(_, _, _)
DotTo(a, x, k) ==
  IF k = 0 THEN Rat(0) ELSE RAdd(DotTo(a, x, k - 1), RMul(a[k], x[k]))

\* numpy A.dot(x) for a matrix A and a vector x
MatVec(A, x) == Tabulate(LAMBDA i : DotTo(A[i], x, Len(x)), Len(A))

Col(B, j) == Tabulate(LAMBDA k : B[k][j], Len(B))

Transpose(A) == Tabulate(LAMBDA j : Col(A, j), Len(A[1]))

\* numpy A.dot(B) for matrices
MatMul(A, B) ==
  LET Bt == Transpose(B)
  IN  Tabulate(LAMBDA i : Tabulate(LAMBDA j : DotTo(A[i], Bt[j], Len(B)), Len(Bt)),
               Len(A))

\* np.zeros([r, c])
Zeros(r, c) == Tabulate(LAMBDA i : Tabulate(LAMBDA j : Rat(0), c), r)

Identity3 == << <<Rat(1), Rat(0), Rat(0)>>,
                <<Rat(0), Rat(1), Rat(0)>>,
                <<Rat(0), Rat(0), Rat(1)>> >>

Det3(A) ==
  RAdd(RSub(RMul(A[1][1], RSub(RMul(A[2][2], A[3][3]), RMul(A[2][3], A[3][2]))),
            RMul(A[1][2], RSub(RMul(A[2][1], A[3][3]), RMul(A[2][3], A[3][1])))),
       RMul(A[1][3], RSub(RMul(A[2][1], A[3][2]), RMul(A[2][2], A[3][1]))))

\* index of the two rows/columns other than i, in cyclic order
Nxt(i) == (i % 3) + 1

Cofactor(A, i, j) ==
  RSub(RMul(A[Nxt(i)][Nxt(j)], A[Nxt(Nxt(i))][Nxt(Nxt(j))]),
       RMul(A[Nxt(i)][Nxt(Nxt(j))], A[Nxt(Nxt(i))][Nxt(j)]))

\* np.linalg.inv of a non-singular 3x3 matrix: adjugate over determinant
Inv3(A) ==
  LET d == Det3(A)
  IN  Tabulate(LAMBDA i : Tabulate(LAMBDA j : RDiv(Cofactor(A, j, i), d), 3), 3)

\* np.linalg.inv raises LinAlgError("Singular matrix") on a singular matrix
Singular(A) == Det3(A) = Rat(0)

(***************************************************************************)
(* Trigonometry at multiples of 90 degrees.  An angle in radians is kept   *)
(* as a whole number of quarter turns (units of pi/2).                     *)
(***************************************************************************)
deg2rad(deg) == deg \div 90

Cos(q) == LET m == q % 4 IN Rat(IF m = 0 THEN 1 ELSE IF m = 2 THEN -1 ELSE 0)
Sin(q) == LET m == q % 4 IN Rat(IF m = 1 THEN 1 ELSE IF m = 3 THEN -1 ELSE 0)

(***************************************************************************)
(* State.                                                                  *)
(*   classK   the array bound to the class attribute Camera.K              *)
(*   cams     the Camera objects built so far: their instance attributes   *)
(*   built    history: each Camera's config and K, R, t, P as they were    *)
(*            when its __init__ returned                                   *)
(*   cls      the module whose Camera class the program uses               *)
(*   cfgPool  the configs the caller may pass to Camera(config)            *)
(***************************************************************************)
(*                                                                         *)
(* The script of lanefitting/ipm.py:                                       *)
(*   args     the parsed command line: n positional CAM IMG arguments,     *)
(*            -wm, -hm, -r, --batch, --output given, -v                    *)
(*   yaml     what yaml.safe_load returns for each opened camera file      *)
(*   listing  per image-path argument, the number of visible files in it   *)
(*   imgShape <<width, height>> of the image cv2.imread returns            *)
(*   pc, err  the script's position, and the exception that ended it       *)
(*   cameraConfigs, imagePaths, outputFilenames, export, shape, outputRes, *)
(*   M, IPMs, warpedImages   the script's globals of those names           *)
(*   tupleIdx number of image tuples the loop has processed                *)
(*   warped   history: every cv2.warpPerspective call made                 *)
(*   outFiles the files of the output directory                            *)
(***************************************************************************)
VARIABLES classK, cams, built, cls, cfgPool,
          args, yaml, listing, imgShape, pc, err,
          cameraConfigs, imagePaths, outputFilenames, export, shape,
          outputRes, M, IPMs, warpedImages, tupleIdx, warped, outFiles

(***************************************************************************)
(* LaneDetectionPolicyE2E (metadrive_policy/lanedetection_policy_patch_e2e):*)
(*   episode_step   engine.episode_step                                    *)
(*   takeover       engine.current_track_agent.expert_takeover             *)
(*   attackStep     the config's dirty_road_patch_attack_step_index        *)
(*   polPc          the simulation thread: about to call expert, about to  *)
(*                  advance the episode step, or stopped by __exit__       *)
(*   ipm            self.ipm                                               *)
(*   ipmCalls       history: calls of get_ipm_via_camera_config            *)
(*   patchObject    engine.dirty_road_patch_object (the step it is from)   *)
(*   io_tasks       self.io_tasks, the queue of closures                   *)
(*   stop_event     self.stop_event                                        *)
(*   wPc, wTask     the io_worker thread's position and the task it holds  *)
(*   writes         history: every image file written                      *)
(*                                                                         *)
(* MetaDriveBridge.run_simulation (metadrive_bridge.py):                   *)
(*   settings       seed, num_scenarios, max_steps, save_images            *)
(*   simPc          position of run_simulation                             *)
(*   step_index     its local of that name                                 *)
(*   current_seed   env.current_seed                                       *)
(*   iters          history: iterations of the while loop started          *)
(*   scenSteps      history: loop steps taken in the current scenario      *)
(*   ended          history: per scenario ended, its seed, the loop steps  *)
(*                  it got and whether the environment ended it            *)
(*   savedObs       the step indices of camera_observations/<n>.jpg        *)
(***************************************************************************)
VARIABLES episode_step, takeover, attackStep, polPc, ipm, ipmCalls,
          patchObject, io_tasks, stop_event, wPc, wTask, writes,
          settings, simPc, step_index, current_seed, iters, scenSteps, ended,
          savedObs

polVars == <<episode_step, takeover, attackStep, polPc, ipm, ipmCalls,
             patchObject, io_tasks, stop_event, wPc, wTask, writes>>
simVars == <<settings, simPc, step_index, current_seed, iters, scenSteps, ended,
             savedObs>>

camVars == <<classK, cams, built>>
\* what the Camera class and the ipm.py script leave alone
envVars == <<cls, cfgPool, args, yaml, listing, imgShape, polVars, simVars>>
runVars == <<pc, err, cameraConfigs, imagePaths, outputFilenames, export, shape,
             outputRes, M, IPMs, warpedImages, tupleIdx, warped, outFiles>>
vars == <<camVars, envVars, runVars>>

DEBUG_SCALE_FACTOR == 8

ConfigKeys ==
  {"fx", "fy", "px", "py", "yaw", "pitch", "roll", "XCam", "YCam", "ZCam"}

\* config[...] raises KeyError when the key is missing
ConfigOK(config) == ConfigKeys \subseteq DOMAIN config

(***************************************************************************)
(* class Camera                                                            *)
(***************************************************************************)
\* self.K[i, j] = ...: item assignment into the array self.K names
setK(K, fx, fy, px, py) ==
  [K EXCEPT ![1][1] = fx, ![2][2] = fy, ![1][3] = px, ![2][3] = py,
            ![3][3] = Rat(1)]

Rz(y) == << <<Cos(-y), RNeg(Sin(-y)), Rat(0)>>,
            <<Sin(-y), Cos(-y), Rat(0)>>,
            <<Rat(0), Rat(0), Rat(1)>> >>

Ry(p) == << <<Cos(-p), Rat(0), Sin(-p)>>,
            <<Rat(0), Rat(1), Rat(0)>>,
            <<RNeg(Sin(-p)), Rat(0), Cos(-p)>> >>

Rx(r) == << <<Rat(1), Rat(0), Rat(0)>>,
            <<Rat(0), Cos(-r), RNeg(Sin(-r))>>,
            <<Rat(0), Sin(-r), Cos(-r)>> >>

\* switch axes (x = -y, y = -z, z = x)
Rs == << <<Rat(0), Rat(-1), Rat(0)>>,
         <<Rat(0), Rat(0), Rat(-1)>>,
         <<Rat(1), Rat(0), Rat(0)>> >>

\* setR with the sign of one sine of Ry lost
setR_RySign(y, p, r) ==
  LET RyBad == << <<Cos(-p), Rat(0), Sin(-p)>>,
                  <<Rat(0), Rat(1), Rat(0)>>,
                  <<Sin(-p), Rat(0), Cos(-p)>> >>
  IN  MatMul(Rs, MatMul(Rz(y), MatMul(RyBad, Rx(r))))

\* self.R = Rs.dot(Rz.dot(Ry.dot(Rx))): a new array bound to the instance
setR(y, p, r) == MatMul(Rs, MatMul(Rz(y), MatMul(Ry(p), Rx(r))))

\* setT with the sign lost
setT_NoNeg(R, XCam, YCam, ZCam) == MatVec(R, <<XCam, YCam, ZCam>>)

\* self.t = -self.R.dot(X)
setT(R, XCam, YCam, ZCam) ==
  LET X == <<XCam, YCam, ZCam>>
      RX == MatVec(R, X)
  IN  <<RNeg(RX[1]), RNeg(RX[2]), RNeg(RX[3])>>

\* Rt = [R | t]; self.P = self.K.dot(Rt)
updateP(K, R, t) ==
  LET Rt == Tabulate(LAMBDA i : Append(R[i], t[i]), 3)
  IN  MatMul(K, Rt)

\* __init__ calling updateP before setK: P is built from the K it found
IpmCameraInit_StaleK(K, config) ==
  LET K1 == setK(K, config.fx, config.fy, config.px, config.py)
      R1 == setR(deg2rad(config.yaw), deg2rad(config.pitch), deg2rad(config.roll))
      t1 == setT(R1, config.XCam,
                 RMul(config.YCam, Rat(DEBUG_SCALE_FACTOR)),
                 RMul(config.ZCam, Rat(DEBUG_SCALE_FACTOR)))
  IN  [K |-> K1, R |-> R1, t |-> t1, P |-> updateP(K, R1, t1)]

\* Camera.__init__ of lanefitting/ipm.py, K being the array self.K names when
\* it starts; the result holds that array after setK and the instance's R, t, P
IpmCameraInit(K, config) ==
  LET K1 == setK(K, config.fx, config.fy, config.px, config.py)
      R1 == setR(deg2rad(config.yaw), deg2rad(config.pitch), deg2rad(config.roll))
      t1 == setT(R1, config.XCam,
                 RMul(config.YCam, Rat(DEBUG_SCALE_FACTOR)),
                 RMul(config.ZCam, Rat(DEBUG_SCALE_FACTOR)))
  IN  [K |-> K1, R |-> R1, t |-> t1, P |-> updateP(K1, R1, t1)]

\* Camera.__init__ of metadrive_bridge.py
BridgeCameraInit(K, config) ==
  LET K1 == setK(K, config.fx, config.fy, config.px, config.py)
      R1 == setR(deg2rad(config.yaw), deg2rad(config.pitch), deg2rad(config.roll))
      t1 == setT(R1, config.XCam, config.YCam, config.ZCam)
  IN  [K |-> K1, R |-> R1, t |-> t1, P |-> updateP(K1, R1, t1)]

CameraInit(c, K, config) ==
  IF c = "ipm" THEN IpmCameraInit(K, config) ELSE BridgeCameraInit(K, config)

\* The attribute self.K of the i-th Camera: no instance attribute K is ever
\* bound, so the lookup finds the class attribute
CamK(i) == classK

\* Camera(config): the object is allocated and __init__ runs to its end
Construct(config) ==
  \E c \in {CameraInit(cls, classK, config)} :
      /\ classK' = c.K
      /\ cams' = Append(cams, [R |-> c.R, t |-> c.t, P |-> c.P])
      /\ built' = Append(built, [config |-> config, K |-> c.K, R |-> c.R,
                                 t |-> c.t, P |-> c.P])

(***************************************************************************)
(* Inputs.                                                                 *)
(***************************************************************************)
Angles == {-90, 0, 90, 180}
Focals == {Rat(1), Rat(2)}
Centres == {Rat(1), Rat(2)}
Positions == {Rat(n) : n \in 0..MaxPos}

MkConfig(fx, fy, px, py, yaw, pitch, roll, X, Y, Z) ==
  [fx |-> fx, fy |-> fy, px |-> px, py |-> py, yaw |-> yaw, pitch |-> pitch,
   roll |-> roll, XCam |-> X, YCam |-> Y, ZCam |-> Z]

\* every orientation and position, two intrinsics
AllPoseConfigs ==
  {MkConfig(f, f, Rat(1), Rat(1), yaw, pitch, roll, X, Y, Z) :
     f \in Focals, yaw \in Angles, pitch \in Angles, roll \in Angles,
     X \in Positions, Y \in Positions, Z \in Positions}

\* every intrinsic matrix over two focal lengths and two principal points;
\* the cameras of focal length fx = 2 look along the world z axis
AllIntrinsicConfigs ==
  {MkConfig(fx, fy, px, py, 0, IF fx = Rat(2) THEN 90 ELSE 0, 0,
            Rat(0), Rat(0), Rat(1)) :
     fx \in Focals, fy \in Focals, px \in Centres, py \in Centres}

(***************************************************************************)
(* A program that builds Cameras: Camera(config) for configs of cfgPool.   *)
(***************************************************************************)
NewCamera ==
  /\ Len(cams) < MaxCams
  /\ pc = "lib"
  /\ \E config \in cfgPool : Construct(config)
  /\ UNCHANGED <<envVars, runVars>>

InitCamState ==
  /\ classK = Zeros(3, 3)
  /\ cams = <<>>
  /\ built = <<>>

\* the script's globals before its first statement
InitRunState(p) ==
  /\ pc = p
  /\ err = "none"
  /\ cameraConfigs = <<>>
  /\ imagePaths = <<>>
  /\ outputFilenames = <<>>
  /\ export = FALSE
  /\ shape = <<0, 0>>
  /\ outputRes = <<0, 0>>
  /\ M = <<>>
  /\ IPMs = <<>>
  /\ warpedImages = <<>>
  /\ tupleIdx = 0
  /\ warped = <<>>
  /\ outFiles = {}

\* no policy object exists
InitPolicyIdle ==
  /\ episode_step = 0
  /\ takeover = FALSE
  /\ attackStep = -1
  /\ polPc = "off"
  /\ ipm = "None"
  /\ ipmCalls = 0
  /\ patchObject = "None"
  /\ io_tasks = <<>>
  /\ stop_event = FALSE
  /\ wPc = "off"
  /\ wTask = "None"
  /\ writes = <<>>

\* run_simulation is not running
InitSimIdle ==
  /\ settings = [seed |-> 0]
  /\ simPc = "off"
  /\ step_index = 0
  /\ current_seed = 0
  /\ iters = 0
  /\ scenSteps = 0
  /\ ended = <<>>
  /\ savedObs = {}

\* the Camera class used as a library: the script does not run
InitLib ==
  /\ InitPolicyIdle
  /\ InitSimIdle
  /\ InitRunState("lib")
  /\ args = [n |-> 0]
  /\ yaml = <<>>
  /\ listing = <<>>
  /\ imgShape = <<0, 0>>

\* several Cameras from configs that differ in their intrinsics
Init ==
  /\ InitCamState
  /\ InitLib
  /\ cls \in {"ipm", "bridge"}
  /\ cfgPool = AllIntrinsicConfigs

\* Cameras from one config, over every orientation and position
InitCamera ==
  /\ InitCamState
  /\ InitLib
  /\ cls \in {"ipm", "bridge"}
  /\ cfgPool \in {{c} : c \in AllPoseConfigs}

Next == NewCamera

Spec == Init /\ [][Next]_vars
SpecCamera == InitCamera /\ [][Next]_vars

(***************************************************************************)
(* The script of lanefitting/ipm.py.                                       *)
(***************************************************************************)
\* an image file: the path argument it comes from and its base name (in a
\* directory, its rank in the sorted listing)
File(a, name) == [arg |-> a, name |-> name]

\* os.path.basename
basename(f) == f.name

Min(S) == CHOOSE x \in S : \A y \in S : x <= y

\* list(map(list, zip(*lists))): as many tuples as the shortest list holds
ZipTranspose(counts) ==
  IF counts = <<>> THEN <<>>
  ELSE Tabulate(LAMBDA j : Tabulate(LAMBDA a : File(a, j), Len(counts)),
                Min({counts[a] : a \in 1..Len(counts)}))

\* lines 89-113: camera configs, image paths, output file names, output dir.
\* int(len(args.camera_img_pair) / 2.0) pairs are read.
LoadPaths ==
  /\ pc = "load"
  /\ \E k \in {args.n \div 2} :
     \E paths \in {IF ~args.batch
                   THEN <<Tabulate(LAMBDA a : File(a, 1), k)>>
                   ELSE ZipTranspose(SubSeq(listing, 1, k))} :
       /\ cameraConfigs' = SubSeq(yaml, 1, k)
       /\ imagePaths' = paths
       /\ IF \E j \in 1..Len(paths) : paths[j] = <<>>
          THEN \* imageTuple[0] of an empty tuple
               /\ pc' = "error"
               /\ err' = "IndexError"
               /\ UNCHANGED <<outputFilenames, export>>
          ELSE /\ outputFilenames' =
                    Tabulate(LAMBDA j : basename(paths[j][1]), Len(paths))
               /\ export' = args.output
               /\ pc' = "shape"
               /\ err' = "none"
  /\ UNCHANGED <<camVars, envVars, shape, outputRes, M, IPMs, warpedImages,
                 tupleIdx, warped, outFiles>>

\* lines 115-118: shape of the first image
ReadShape ==
  /\ pc = "shape"
  /\ IF imagePaths = <<>>
     THEN /\ pc' = "error"
          /\ err' = "IndexError"
          /\ UNCHANGED shape
     ELSE /\ shape' = imgShape
          /\ pc' = "cams"
          /\ err' = "none"
  /\ UNCHANGED <<camVars, envVars, cameraConfigs, imagePaths, outputFilenames,
                 export, outputRes, M, IPMs, warpedImages, tupleIdx, warped,
                 outFiles>>

\* config["px"] = width / 2; config["py"] = height / 2
WithCentre(config, width, height) ==
  [k \in DOMAIN config \cup {"px", "py"} |->
     IF k = "px" THEN RDiv(Rat(width), Rat(2))
     ELSE IF k = "py" THEN RDiv(Rat(height), Rat(2))
     ELSE config[k]]

\* lines 121-125: one iteration of the loop over cameraConfigs
InitCam ==
  /\ pc = "cams"
  /\ \E i \in {Len(cams) + 1} :
     \E config \in {WithCentre(cameraConfigs[i], shape[1], shape[2])} :
       /\ cameraConfigs' = [cameraConfigs EXCEPT ![i] = config]
       /\ IF ConfigOK(config)
          THEN /\ Construct(config)
               /\ pc' = IF i = Len(cameraConfigs) THEN "res" ELSE "cams"
               /\ err' = "none"
          ELSE /\ pc' = "error"
               /\ err' = "KeyError"
               /\ UNCHANGED camVars
  /\ UNCHANGED <<envVars, imagePaths, outputFilenames, export, shape, outputRes,
                 M, IPMs, warpedImages, tupleIdx, warped, outFiles>>

\* line 127
pxPerM == <<args.r, args.r>>

\* line 128, with the output extent taken from -hm and -wm
OutputRes_FromExtent(width, height) ==
  <<RTrunc(RMul(args.hm, pxPerM[1])), RTrunc(RMul(args.wm, pxPerM[2]))>>

\* line 128: outputRes = (int(height * pxPerM[0]), int(width * pxPerM[1]))
OutputRes(width, height) ==
  <<RTrunc(RMul(Rat(height), pxPerM[1])), RTrunc(RMul(Rat(width), pxPerM[2]))>>

\* line 131
Shift(res) == <<RDiv(Rat(res[1]), Rat(2)), RDiv(Rat(res[2]), Rat(2))>>

\* M with the two shifts exchanged
PlaneToWorld_SwappedShift(res) ==
  << <<RDiv(Rat(1), pxPerM[2]), Rat(0), RDiv(RNeg(Shift(res)[1]), pxPerM[2])>>,
     <<Rat(0), RDiv(Rat(-1), pxPerM[1]), RDiv(Shift(res)[2], pxPerM[1])>>,
     <<Rat(0), Rat(0), Rat(0)>>,
     <<Rat(0), Rat(0), Rat(1)>> >>

\* line 132: mapping from street/top-image plane to world coords
PlaneToWorld(res) ==
  << <<RDiv(Rat(1), pxPerM[2]), Rat(0), RDiv(RNeg(Shift(res)[2]), pxPerM[2])>>,
     <<Rat(0), RDiv(Rat(-1), pxPerM[1]), RDiv(Shift(res)[1], pxPerM[1])>>,
     <<Rat(0), Rat(0), Rat(0)>>,
     <<Rat(0), Rat(0), Rat(1)>> >>

\* lines 127-132
SetupM ==
  /\ pc = "res"
  /\ \E res \in {OutputRes(shape[1], shape[2])} :
       /\ outputRes' = res
       /\ M' = PlaneToWorld(res)
  /\ pc' = "ipms"
  /\ UNCHANGED <<camVars, envVars, err, cameraConfigs, imagePaths,
                 outputFilenames, export, shape, IPMs, warpedImages, tupleIdx,
                 warped, outFiles>>

\* the loop of lines 136-137 inside a try whose except passes: a singular
\* matrix ends the loop and the script goes on
DeriveIPM_Swallow ==
  /\ pc = "ipms"
  /\ \E i \in {Len(IPMs) + 1} :
     \E PM \in {MatMul(cams[i].P, M)} :
       IF Singular(PM)
       THEN /\ pc' = "print"
            /\ err' = "none"
            /\ UNCHANGED IPMs
       ELSE /\ IPMs' = Append(IPMs, Inv3(PM))
            /\ pc' = IF i = Len(cams) THEN "print" ELSE "ipms"
            /\ err' = "none"
  /\ UNCHANGED <<camVars, envVars, cameraConfigs, imagePaths, outputFilenames,
                 export, shape, outputRes, M, warpedImages, tupleIdx, warped,
                 outFiles>>

\* lines 136-137: one iteration, IPMs.append(np.linalg.inv(cam.P.dot(M)))
DeriveIPM ==
  /\ pc = "ipms"
  /\ \E i \in {Len(IPMs) + 1} :
     \E PM \in {MatMul(cams[i].P, M)} :
       IF Singular(PM)
       THEN /\ pc' = "error"
            /\ err' = "LinAlgError"
            /\ UNCHANGED IPMs
       ELSE /\ IPMs' = Append(IPMs, Inv3(PM))
            /\ pc' = IF i = Len(cams) THEN "print" ELSE "ipms"
            /\ err' = "none"
  /\ UNCHANGED <<camVars, envVars, cameraConfigs, imagePaths, outputFilenames,
                 export, shape, outputRes, M, warpedImages, tupleIdx, warped,
                 outFiles>>

\* lines 140-144: with -v the homographies are printed and the script exits
PrintHomographies ==
  /\ pc = "print"
  /\ pc' = IF args.v THEN "exit" ELSE "warp"
  /\ tupleIdx' = 0
  /\ UNCHANGED <<camVars, envVars, err, cameraConfigs, imagePaths,
                 outputFilenames, export, shape, outputRes, M, IPMs,
                 warpedImages, warped, outFiles>>

\* lines 161-164: zip(images, IPMs) pairs as many as the shorter holds
WarpAll(images, homographies) ==
  Tabulate(LAMBDA i : [img |-> images[i], IPM |-> homographies[i],
                       size |-> <<outputRes[2], outputRes[1]>>],
           Min({Len(images), Len(homographies)}))

\* lines 149-164: one iteration of the loop over imagePaths
WarpTuple ==
  /\ pc = "warp"
  /\ \E j \in {tupleIdx + 1} :
     \E w \in {WarpAll(imagePaths[j], IPMs)} :
       /\ warpedImages' = w
       /\ warped' = warped \o w
       /\ tupleIdx' = j
       /\ pc' = IF j = Len(imagePaths) THEN "show" ELSE "warp"
  /\ UNCHANGED <<camVars, envVars, err, cameraConfigs, imagePaths,
                 outputFilenames, export, shape, outputRes, M, IPMs, outFiles>>

\* lines 167-169: the first warped image of the last tuple is shown
Show ==
  /\ pc = "show"
  /\ pc' = IF warpedImages = <<>> THEN "error" ELSE "done"
  /\ err' = IF warpedImages = <<>> THEN "IndexError" ELSE "none"
  /\ UNCHANGED <<camVars, envVars, cameraConfigs, imagePaths, outputFilenames,
                 export, shape, outputRes, M, IPMs, warpedImages, tupleIdx,
                 warped, outFiles>>

(***************************************************************************)
(* Inputs of the script.                                                   *)
(***************************************************************************)
\* camera files: level camera, camera looking along the world z axis, the
\* same at height 0, and a file without fx
RunConfigs ==
  { MkConfig(Rat(1), Rat(1), Rat(0), Rat(0), 0, 0, 0, Rat(0), Rat(0), Rat(1)),
    MkConfig(Rat(2), Rat(1), Rat(0), Rat(0), 0, 90, 0, Rat(1), Rat(0), Rat(1)),
    MkConfig(Rat(1), Rat(1), Rat(0), Rat(0), 0, 90, 0, Rat(0), Rat(1), Rat(0)),
    [fy |-> Rat(1), yaw |-> 0, pitch |-> 0, roll |-> 0,
     XCam |-> Rat(0), YCam |-> Rat(0), ZCam |-> Rat(1)] }

\* -wm, -hm, -r with the shape <<width, height>> of the images: the default
\* extent at 1 px/m over two image shapes, and a small plane at 2 px/m
RunInputs ==
  { [wm |-> Rat(20), hm |-> Rat(40), r |-> Rat(1), shape |-> <<4, 2>>],
    [wm |-> Rat(20), hm |-> Rat(40), r |-> Rat(1), shape |-> <<3, 2>>],
    [wm |-> Rat(1), hm |-> Rat(2), r |-> Rat(2), shape |-> <<4, 2>>] }

RECURSIVE SeqsOf(_, _)
SeqsOf(S, n) ==
  IF n = 0 THEN {<<>>}
  ELSE {Append(q, x) : q \in SeqsOf(S, n - 1), x \in S}

InitRun ==
  /\ InitCamState
  /\ InitPolicyIdle
  /\ InitSimIdle
  /\ InitRunState("load")
  /\ cls = "ipm"
  /\ cfgPool = {}
  /\ \E n \in 0..MaxArgs, o \in RunInputs :
     \E batch, output, v \in BOOLEAN :
       /\ args = [n |-> n, wm |-> o.wm, hm |-> o.hm, r |-> o.r,
                  batch |-> batch, output |-> output, v |-> v]
       /\ yaml \in SeqsOf(RunConfigs, n \div 2)
       /\ listing \in IF batch THEN SeqsOf(0..MaxFiles, n \div 2)
                      ELSE {Tabulate(LAMBDA a : 1, n \div 2)}
       /\ imgShape = o.shape

NextRun ==
  \/ LoadPaths
  \/ ReadShape
  \/ InitCam
  \/ SetupM
  \/ DeriveIPM
  \/ PrintHomographies
  \/ WarpTuple
  \/ Show

SpecRun == InitRun /\ [][NextRun]_vars

(***************************************************************************)
(* Claims about the Camera class.                                          *)
(***************************************************************************)
\* C1: building another Camera leaves the K, R, t and P of every Camera built
\* before exactly as they were when that Camera finished construction.
C1_NoSharedState ==
  \A i \in 1..Len(cams) :
    /\ CamK(i) = built[i].K
    /\ cams[i].R = built[i].R
    /\ cams[i].t = built[i].t
    /\ cams[i].P = built[i].P

\* C4: every Camera's translation is t = -R * [XCam, YCam, ZCam] with the
\* config's position exactly as given, R being the Camera's own rotation.
C4_TranslationUnscaled ==
  \A i \in 1..Len(cams) :
    LET c == built[i].config
        RX == MatVec(cams[i].R, <<c.XCam, c.YCam, c.ZCam>>)
    IN  cams[i].t = <<RNeg(RX[1]), RNeg(RX[2]), RNeg(RX[3])>>

\* C8: the rotation matrix of every Camera is orthonormal with determinant +1:
\* R^T * R = I and det(R) = 1.
C8_RotationOrthonormal ==
  \A i \in 1..Len(cams) :
    /\ MatMul(Transpose(cams[i].R), cams[i].R) = Identity3
    /\ Det3(cams[i].R) = Rat(1)

\* a Camera has been built with each of yaw, pitch and roll a quarter turn
C8_Witness ==
  \E i \in 1..Len(cams) :
    /\ built[i].config.yaw = 90
    /\ built[i].config.pitch = -90
    /\ built[i].config.roll = 180

\* C9: two Cameras built from identical configs have identical K, R, t and P
\* at the end of their construction, whatever was built before or in between.
C9_Deterministic ==
  \A i, j \in 1..Len(built) :
    built[i].config = built[j].config =>
      /\ built[i].K = built[j].K
      /\ built[i].R = built[j].R
      /\ built[i].t = built[j].t
      /\ built[i].P = built[j].P

\* the same config built twice with a Camera of other intrinsics in between
C9_Witness ==
  /\ Len(built) = 3
  /\ built[1].config = built[3].config
  /\ built[2].config.fx # built[1].config.fx
  /\ built[2].config.py # built[1].config.py

(***************************************************************************)
(* Claims about the script.                                                *)
(***************************************************************************)
AfterRes == pc \in {"ipms", "print", "warp", "show", "done", "exit"}
     \/ (pc = "error" /\ err = "LinAlgError")

\* C2: the output resolution is the physical extent times the pixel density,
\* rows = height_m * px_per_m and columns = width_m * px_per_m, whatever the
\* source image's pixel dimensions.
C2_ResFromExtent ==
  AfterRes =>
    outputRes = <<RTrunc(RMul(args.hm, args.r)), RTrunc(RMul(args.wm, args.r))>>

\* C3: with an output directory and without -v, at the end of the run the
\* output directory holds, for every image tuple and every camera, a warped
\* image under the base file name of its source image.
C3_WarpedWritten ==
  (pc = "done" /\ args.output /\ ~args.v) =>
    \A j \in 1..Len(imagePaths) : \A a \in 1..Len(cams) :
      [cam |-> a, name |-> basename(imagePaths[j][a])] \in outFiles

OddArgs == args.n % 2 = 1
UnequalDirs ==
  args.batch /\ \E a, b \in 1..Len(listing) : listing[a] # listing[b]

\* C5: when the images available do not match the cameras configured (camera
\* directories of different sizes, an odd number of CAM IMG arguments) the run
\* does not complete without a reported shape-mismatch error.
C5_MismatchReported ==
  (pc = "done" /\ (OddArgs \/ UnequalDirs)) => err = "ShapeMismatchError"

\* C6 as claimed: a camera whose pitch is 90 degrees never gets a homography.
C6_Pitch90NoHomography ==
  \A i \in 1..Len(IPMs) : cameraConfigs[i].pitch # 90

\* C6 as amended: det(P*M) = fx*fy*Z/(pxPerM_row*pxPerM_col), Z being the
\* height setT was given, whatever the pitch; a camera of nonzero height gets
\* the inverse of P*M as its homography, and a singular-matrix error ends
\* the derivation only for a camera of height 0.
C6_SingularIffHeightZero ==
  /\ AfterRes =>
       \A i \in 1..Len(cams) :
         LET c == cameraConfigs[i]
             Z == RMul(c.ZCam, Rat(DEBUG_SCALE_FACTOR))
             PM == MatMul(cams[i].P, M)
         IN  /\ Det3(PM) = RDiv(RMul(RMul(c.fx, c.fy), Z),
                                RMul(pxPerM[1], pxPerM[2]))
             /\ i <= Len(IPMs) =>
                  /\ c.ZCam # Rat(0)
                  /\ MatMul(IPMs[i], PM) = Identity3
  /\ (pc = "error" /\ err = "LinAlgError") =>
       cameraConfigs[Len(IPMs) + 1].ZCam = Rat(0)

\* a pitch-90 camera has its homography, and a pitch-90 camera of height 0
\* has ended the derivation
C6_Witness ==
  /\ pc = "error"
  /\ err = "LinAlgError"
  /\ Len(IPMs) = 1
  /\ cameraConfigs[1].pitch = 90
  /\ cameraConfigs[2].pitch = 90

\* C7: every Camera is constructed and every homography derived before the
\* first image is warped; when a construction or a derivation fails no image
\* has been warped, and none is warped afterwards.
C7_FailFast ==
  /\ [](/\ warped # <<>> =>
            /\ Len(cams) = Len(cameraConfigs)
            /\ Len(IPMs) = Len(cameraConfigs)
        /\ pc = "error" => warped = <<>>)
  /\ [][pc = "error" => pc' = "error" /\ warped' = warped]_vars

\* a two-camera run whose second camera failed, and no image warped
C7_Witness ==
  /\ pc = "error"
  /\ err \in {"KeyError", "LinAlgError"}
  /\ Len(cams) >= 1
  /\ Len(cameraConfigs) = 2
  /\ warped = <<>>

\* C10: M maps every homogeneous output pixel (u, v, 1) to the world point
\* (u/pxPerM_col - (W/2)/pxPerM_col, -v/pxPerM_row + (H/2)/pxPerM_row, 0, 1),
\* (H, W) being the output resolution.
C10_PlaneToWorld ==
  AfterRes =>
    LET H == outputRes[1]
        W == outputRes[2]
        half == RDiv(Rat(1), Rat(2))
    IN  \A u \in 0..W : \A v \in 0..H :
          MatVec(M, <<Rat(u), Rat(v), Rat(1)>>) =
            << RSub(RDiv(Rat(u), pxPerM[2]),
                    RDiv(RMul(Rat(W), half), pxPerM[2])),
               RAdd(RDiv(Rat(-v), pxPerM[1]),
                    RDiv(RMul(Rat(H), half), pxPerM[1])),
               Rat(0), Rat(1) >>

\* M is built for an output plane that is not square
C10_Witness ==
  /\ pc = "ipms"
  /\ M # <<>>
  /\ outputRes[1] # outputRes[2]

(***************************************************************************)
(* LaneDetectionPolicyE2E: expert on the simulation thread, io_worker on   *)
(* its own thread.                                                         *)
(***************************************************************************)
SAVE_INTERVAL == 10

\* the homography of a calibration: a value determined by fx and fy
get_ipm_via_camera_config(fx, fy) == [fx |-> fx, fy |-> fy]

\* the closure put on io_tasks: lane_image / patch_object is a local of the
\* expert call that made it; the file name is an f-string inside the lambda,
\* formatted from engine.episode_step when the lambda is called
Task(kind, image) == [kind |-> kind, image |-> image]

\* calling a task: the file name is formatted now, the image is the captured one
RunTask(task) ==
  [kind |-> task.kind, name |-> episode_step, image |-> task.image,
   by |-> "io_worker"]

\* plt.imsave on the simulation thread
SaveNow(kind) ==
  [kind |-> kind, name |-> episode_step, image |-> episode_step, by |-> "expert"]

\* lines 108-123: the step of the attack
PatchTasks ==
  IF episode_step = attackStep
  THEN <<Task("patched_input", episode_step)>> ELSE <<>>

PatchSaves ==
  IF episode_step = attackStep
  THEN <<SaveNow("patched_probmap"), SaveNow("patched_softmax_probmap")>>
  ELSE <<>>

\* lines 150-168: every tenth step, when draw_lane returned an image
LaneTasks(lane_image_made) ==
  IF episode_step % SAVE_INTERVAL = 0 /\ lane_image_made
  THEN <<Task("lane", episode_step), Task("lane_bev", episode_step)>>
  ELSE <<>>

\* lines 170-173
ProbmapSaves(save_probmaps) ==
  IF episode_step % SAVE_INTERVAL = 0 /\ save_probmaps
  THEN <<SaveNow("probmap"), SaveNow("softmax_probmap")>> ELSE <<>>

\* line 95: if True or self.ipm is None
RecomputeIpm == TRUE \/ ipm = "None"

\* lines 64-175: one call of expert
Expert ==
  /\ polPc = "expert"
  /\ polPc' = "advance"
  /\ IF ~takeover
     THEN \* manual control: the controller's action is returned
          UNCHANGED <<ipm, ipmCalls, patchObject, io_tasks, writes>>
     ELSE \E lane_image_made \in IF episode_step % SAVE_INTERVAL = 0
                                 THEN BOOLEAN ELSE {FALSE} :
          \E save_probmaps \in IF episode_step % SAVE_INTERVAL = 0
                               THEN BOOLEAN ELSE {FALSE} :
            /\ IF RecomputeIpm
               THEN /\ ipm' = get_ipm_via_camera_config(Rat(1), Rat(1))
                    /\ ipmCalls' = ipmCalls + 1
               ELSE UNCHANGED <<ipm, ipmCalls>>
            /\ patchObject' = IF episode_step = attackStep
                              THEN episode_step ELSE patchObject
            /\ io_tasks' = io_tasks \o PatchTasks \o LaneTasks(lane_image_made)
            /\ writes' = writes \o PatchSaves \o ProbmapSaves(save_probmaps)
  /\ UNCHANGED <<episode_step, takeover, attackStep, stop_event, wPc, wTask>>
  /\ UNCHANGED <<camVars, cls, cfgPool, args, yaml, listing, imgShape, simVars,
                 runVars>>

\* the engine ends the step: episode_step += 1
AdvanceStep ==
  /\ polPc = "advance"
  /\ episode_step < MaxEpisode
  /\ episode_step' = episode_step + 1
  /\ polPc' = "expert"
  /\ UNCHANGED <<takeover, attackStep, ipm, ipmCalls, patchObject, io_tasks,
                 stop_event, wPc, wTask, writes>>
  /\ UNCHANGED <<camVars, cls, cfgPool, args, yaml, listing, imgShape, simVars,
                 runVars>>

\* lines 39-41: __exit__ sets the stop event, then joins the thread
PolicyExit ==
  /\ \/ /\ polPc = "expert"
        /\ stop_event' = TRUE
        /\ polPc' = "joining"
     \/ /\ polPc = "joining"
        /\ wPc = "exited"
        /\ polPc' = "closed"
        /\ UNCHANGED stop_event
  /\ UNCHANGED <<episode_step, takeover, attackStep, ipm, ipmCalls, patchObject,
                 io_tasks, wPc, wTask, writes>>
  /\ UNCHANGED <<camVars, cls, cfgPool, args, yaml, listing, imgShape, simVars,
                 runVars>>

\* line 31: while not self.stop_event.isSet()
WorkerCheck ==
  /\ wPc = "check"
  /\ wPc' = IF stop_event THEN "exited" ELSE "get"
  /\ UNCHANGED <<episode_step, takeover, attackStep, polPc, ipm, ipmCalls,
                 patchObject, io_tasks, stop_event, wTask, writes>>
  /\ UNCHANGED <<camVars, cls, cfgPool, args, yaml, listing, imgShape, simVars,
                 runVars>>

\* lines 32-33, 36-37: get(block=True, timeout=1), queue.Empty on a timeout
WorkerGet ==
  /\ wPc = "get"
  /\ IF io_tasks # <<>>
     THEN /\ wTask' = Head(io_tasks)
          /\ io_tasks' = Tail(io_tasks)
          /\ wPc' = "run"
     ELSE /\ wPc' = "check"
          /\ UNCHANGED <<wTask, io_tasks>>
  /\ UNCHANGED <<episode_step, takeover, attackStep, polPc, ipm, ipmCalls,
                 patchObject, stop_event, writes>>
  /\ UNCHANGED <<camVars, cls, cfgPool, args, yaml, listing, imgShape, simVars,
                 runVars>>

\* lines 34-35: task(); task_done()
WorkerRun ==
  /\ wPc = "run"
  /\ writes' = Append(writes, RunTask(wTask))
  /\ wTask' = "None"
  /\ wPc' = "check"
  /\ UNCHANGED <<episode_step, takeover, attackStep, polPc, ipm, ipmCalls,
                 patchObject, io_tasks, stop_event>>
  /\ UNCHANGED <<camVars, cls, cfgPool, args, yaml, listing, imgShape, simVars,
                 runVars>>

AttackSteps == {-1, 0, 1, 10}

\* lines 22-28: the policy after __init__, the io thread started
InitPolicy ==
  /\ InitCamState
  /\ InitRunState("off")
  /\ InitSimIdle
  /\ cls = "bridge"
  /\ cfgPool = {}
  /\ args = [n |-> 0]
  /\ yaml = <<>>
  /\ listing = <<>>
  /\ imgShape = <<0, 0>>
  /\ episode_step = 0
  /\ takeover \in BOOLEAN
  /\ attackStep \in AttackSteps
  /\ polPc = "expert"
  /\ ipm = "None"
  /\ ipmCalls = 0
  /\ patchObject = "None"
  /\ io_tasks = <<>>
  /\ stop_event = FALSE
  /\ wPc = "check"
  /\ wTask = "None"
  /\ writes = <<>>

NextPolicy ==
  \/ Expert
  \/ AdvanceStep
  \/ PolicyExit
  \/ WorkerCheck
  \/ WorkerGet
  \/ WorkerRun

SpecPolicy == InitPolicy /\ [][NextPolicy]_vars

(***************************************************************************)
(* Claims about the policy.                                                *)
(***************************************************************************)
\* C11: a homography is computed once per camera configuration and output
\* spec and reused unchanged: the script's image loop warps with the IPMs
\* derived before it, and expert does not compute self.ipm again on a later
\* step while the calibration stays the same.
C11_ComputedOnce ==
  /\ \A i \in 1..Len(warped) : \E a \in 1..Len(IPMs) : warped[i].IPM = IPMs[a]
  /\ ipmCalls <= 1

\* C14: every file the io_worker thread writes carries the episode step at
\* which its task was enqueued, which is the step of the image it holds.
C14_NameOfEnqueueStep ==
  \A i \in 1..Len(writes) :
    writes[i].by = "io_worker" => writes[i].name = writes[i].image

(***************************************************************************)
(* MetaDriveBridge.run_simulation.  The environment is third-party: each   *)
(* env.step returns any terminated/truncated pair, env.reset(s) makes      *)
(* env.current_seed = s.                                                   *)
(***************************************************************************)
OBS_INTERVAL == 20

\* lines 144-158: old observations removed, reset to the first seed, the
\* warm-up steps (their results are not looked at), step_index = 0
StartSim ==
  /\ simPc = "start"
  /\ savedObs' = {}
  /\ current_seed' = settings.seed
  /\ step_index' = 0
  /\ simPc' = "loop"
  /\ UNCHANGED <<settings, iters, scenSteps, ended>>
  /\ UNCHANGED <<camVars, cls, cfgPool, args, yaml, listing, imgShape, polVars,
                 runVars>>

\* lines 172-182
SaveObservation ==
  IF settings.save_images /\ step_index % OBS_INTERVAL = 0
  THEN savedObs \cup {step_index} ELSE savedObs

\* line 184
ScenarioOver(tm, tc) == tm \/ tc \/ step_index >= settings.max_steps

\* line 186
MoreScenarios == current_seed + 1 < settings.seed + settings.num_scenarios

\* an iteration that never increments step_index
SimStep_NoIncrement ==
  /\ simPc = "loop"
  /\ iters' = iters + 1
  /\ savedObs' = SaveObservation
  /\ \E tm, tc \in BOOLEAN :
       IF ScenarioOver(tm, tc)
       THEN /\ ended' = Append(ended, [seed |-> current_seed,
                                       steps |-> scenSteps + 1,
                                       byEnv |-> tm \/ tc])
            /\ scenSteps' = 0
            /\ IF MoreScenarios
               THEN /\ current_seed' = current_seed + 1
                    /\ UNCHANGED <<simPc, step_index>>
               ELSE /\ simPc' = "done"
                    /\ UNCHANGED <<current_seed, step_index>>
       ELSE /\ scenSteps' = scenSteps + 1
            /\ UNCHANGED <<simPc, current_seed, ended, step_index>>
  /\ UNCHANGED settings
  /\ UNCHANGED <<camVars, cls, cfgPool, args, yaml, listing, imgShape, polVars,
                 runVars>>

\* lines 159-190: one iteration of the while loop
SimStep ==
  /\ simPc = "loop"
  /\ iters' = iters + 1
  /\ savedObs' = SaveObservation
  /\ \E tm, tc \in BOOLEAN :
       IF ScenarioOver(tm, tc)
       THEN /\ ended' = Append(ended, [seed |-> current_seed,
                                       steps |-> scenSteps + 1,
                                       byEnv |-> tm \/ tc])
            /\ scenSteps' = 0
            /\ IF MoreScenarios
               THEN \* env.reset(env.current_seed + 1); step_index += 1
                    /\ current_seed' = current_seed + 1
                    /\ step_index' = step_index + 1
                    /\ UNCHANGED simPc
               ELSE \* break
                    /\ simPc' = "done"
                    /\ UNCHANGED <<current_seed, step_index>>
       ELSE /\ scenSteps' = scenSteps + 1
            /\ step_index' = step_index + 1
            /\ UNCHANGED <<simPc, current_seed, ended>>
  /\ UNCHANGED settings
  /\ UNCHANGED <<camVars, cls, cfgPool, args, yaml, listing, imgShape, polVars,
                 runVars>>

Seeds == {0, 1235}

InitSim ==
  /\ InitCamState
  /\ InitRunState("off")
  /\ InitPolicyIdle
  /\ cls = "bridge"
  /\ cfgPool = {}
  /\ args = [n |-> 0]
  /\ yaml = <<>>
  /\ listing = <<>>
  /\ imgShape = <<0, 0>>
  /\ \E seed \in Seeds, n \in 1..MaxScen, m \in 0..MaxSteps, sv \in BOOLEAN :
       settings = [seed |-> seed, num_scenarios |-> n, max_steps |-> m,
                   save_images |-> sv]
  /\ simPc = "start"
  /\ step_index = 0
  /\ current_seed = 0
  /\ iters = 0
  /\ scenSteps = 0
  /\ ended = <<>>
  /\ savedObs \in {{}, {0, OBS_INTERVAL}}

NextSim ==
  \/ StartSim
  \/ SimStep

SpecSim == InitSim /\ [][NextSim]_vars

\* the thread running run_simulation keeps running
SpecSimFair == SpecSim /\ WF_vars(NextSim)

(***************************************************************************)
(* Claims about run_simulation.                                            *)
(***************************************************************************)
\* C12: the scenario seeds seed .. seed + num_scenarios - 1 are run in
\* increasing order, all of them by the end, and every scenario is stepped
\* until the environment ends it or it has had max_steps steps of its own.
C12_ScenariosRunFully ==
  /\ \A i \in 1..Len(ended) :
       /\ ended[i].seed = settings.seed + i - 1
       /\ ended[i].byEnv \/ ended[i].steps >= settings.max_steps
  /\ simPc = "done" => Len(ended) = settings.num_scenarios

\* C13: run_simulation terminates whatever the environment returns, after at
\* most max_steps + num_scenarios + 1 iterations of its loop.
C13_Terminates ==
  /\ [](iters <= settings.max_steps + settings.num_scenarios + 1)
  /\ <>(simPc = "done")

\* the longest run: the environment never ends a scenario
C13_Witness ==
  /\ simPc = "done"
  /\ settings.num_scenarios >= 2
  /\ settings.max_steps >= 2
  /\ iters = settings.max_steps + settings.num_scenarios
  /\ \A i \in 1..Len(ended) : ~ended[i].byEnv

====
